---------------------------- MODULE Spec2Model ----------------------------
(***************************************************************************)
(* A model of xdel: the surgical XML editor (src/src/xeditor.rs) and the   *)
(* concurrent resource indexer (src/src/index.rs).                         *)
(*                                                                         *)
(* The module holds several specifications over one set of variables:      *)
(*   SpecEdit   remove_element / find_location_to_strip on one file        *)
(*   SpecMatch  ElementMatcher::matches as a pure function                 *)
(*   SpecIndex  the ResourceIndex views as pure functions of a record list *)
(*   SpecWalk   Indexer::index: three walks, workers, collector, caller    *)
(*   FairWalk   SpecWalk with the fairness of the thread scheduler         *)
(*   SpecWalkErr  SpecWalk where building a walker may fail with Err       *)
(*   SpecRoots  SpecWalk over every arrangement of the three roots         *)
(*   SpecCache  Indexer::serialize / deserialize on the cache file         *)
(*   SpecSource Indexer::index_source_file on the lines of one file        *)
(*   SpecXml    Indexer::index_xml_file on the events of one file          *)
(* Each specification leaves the variables of the other parts idle.        *)
(***************************************************************************)
EXTENDS Integers, Sequences, FiniteSets, TLC

VARIABLES
    \* ---- xeditor.rs: remove_element and find_location_to_strip ----
    file,               \* the file on disk: a sequence of lines
    file_content,       \* remove_element's in-memory copy (fs::read_to_string)
    matcher,            \* the ElementMatcher handed to remove_element
    overflow_checks,    \* the build: TRUE = overflow checks on (debug profile)
    pc,                 \* position inside remove_element
    parser,             \* EventReader state: tokens consumed, open elements
    in_skipped_element, \* find_location_to_strip locals
    start_line,
    start_depth,
    depth,
    location,           \* Option<ElementLocation>
    line_number,        \* u64 loop counter of the rewrite loop (four 16-bit limbs)
    idx,                \* position of the lines() iterator (1-based)
    result,             \* what remove_element returned
    opened,             \* File::create has been called in this call
    \* ---- xeditor.rs: ElementMatcher as a value, matches as a function ----
    q_matcher,          \* the matcher being built
    q_elem,             \* the element it is tried on: name and attributes
    q_result,           \* what matches returned, "none" before the call
    \* ---- index.rs: ResourceIndex ----
    files,              \* ResourceIndex.files: the record list
    view,               \* the last view computed: [op, value]
    \* ---- index.rs: Indexer::index and its walks ----
    disk,               \* the files on disk, each with its directory and content
    roots,              \* the Indexer: java_root, res_root, manifest_root
    phase,              \* the walk index() is in: res, manifest, src; then done
                        \* (failed when a walk returned Err)
    cpc,                \* the caller's position inside the walk function
    pending,            \* directory entries the walker has not handed out yet
    workers,            \* per walker thread: position, entry, record
    tx_count,           \* live Senders of the record channel (tx and its clones)
    rx_alive,           \* the collector still holds the Receiver rx
    chan,               \* records in flight on the record channel
    collector,          \* the collector thread's position
    results,            \* the collector's results Vec
    chan2,              \* the completion channel (tx2, rx2)
    xml_files,          \* index(): the records of the XML walks so far
    warnings,           \* eprintln warnings: the (walk, path) pairs logged
    panicked,           \* threads that panicked on a failed send
    \* ---- index.rs: Indexer::serialize and Indexer::deserialize ----
    cache_file,         \* res_cache.bin in the cache directory
    saved,              \* the record list handed to the latest serialize
    c_result,           \* what the latest cache call returned
    \* ---- index.rs: Indexer::index_source_file ----
    s_file,             \* the source file: a sequence of lines of characters
    s_line,             \* the line the searcher hands to the sink next
    s_usages,           \* string_usages
    s_result,           \* what index_source_file returned
    \* ---- index.rs: Indexer::index_xml_file ----
    x_events,           \* the events the parser yields for the file
    x_pos,              \* the event parser.next() yields next
    x_defs,             \* string_definitions
    x_usages,           \* string_usages
    x_result            \* what index_xml_file returned

evars == <<file, file_content, matcher, overflow_checks, pc, parser,
           in_skipped_element, start_line, start_depth, depth, location,
           line_number, idx, result, opened>>

qvars == <<q_matcher, q_elem, q_result>>

ivars == <<files, view>>

wvars == <<disk, roots, phase, cpc, pending, workers, tx_count, rx_alive, chan,
           collector, results, chan2, xml_files, warnings, panicked>>

cvars == <<cache_file, saved, c_result>>

svars == <<s_file, s_line, s_usages, s_result>>

xvars == <<x_events, x_pos, x_defs, x_usages, x_result>>

vars == <<evars, qvars, ivars, wvars, cvars, svars, xvars>>

\* what the actions of each part leave alone
notEdit == <<qvars, ivars, wvars, cvars, svars, xvars>>

notMatch == <<evars, ivars, wvars, cvars, svars, xvars>>

notIndex == <<evars, qvars, wvars, cvars, svars, xvars>>

notWalk == <<evars, qvars, cvars, svars, xvars>>

notCache == <<evars, qvars, wvars, view, svars, xvars>>

notSource == <<evars, qvars, ivars, wvars, cvars, xvars>>

notXml == <<evars, qvars, ivars, wvars, cvars, svars>>

-----------------------------------------------------------------------------
(* Bounds of the model *)

\* elements (and malformed tokens) below the root element of a generated file
MaxElems == 3
\* records of a record list handed to ResourceIndex::new
MaxRecords == 2
\* threads of the parallel walker (the code asks for 36)
NumWorkers == 2
\* pieces of text a generated source line is made of
MaxPieces == 3
\* lines of a generated source file
MaxSourceLines == 2
\* events of a generated XML file, before EndDocument or the error
MaxEvents == 2

-----------------------------------------------------------------------------
(* Sequence helpers *)

Last(s) == s[Len(s)]

Front(s) == SubSeq(s, 1, Len(s) - 1)

RECURSIVE Concat(_)
Concat(ss) == IF ss = <<>> THEN <<>> ELSE Head(ss) \o Concat(Tail(ss))

-----------------------------------------------------------------------------
(* u64 arithmetic: a value is <<l3, l2, l1, l0>>, four 16-bit limbs, most  *)
(* significant first, so that the full 64-bit width is kept.               *)

LimbBase == 2^16

U64Zero == <<0, 0, 0, 0>>

U64Max == <<LimbBase - 1, LimbBase - 1, LimbBase - 1, LimbBase - 1>>

U64FromNat(n) == <<0, 0, n \div LimbBase, n % LimbBase>>

U64Less(a, b) ==
    \E i \in 1..4 : a[i] < b[i] /\ \A j \in 1..(i - 1) : a[j] = b[j]

\* x - 1 in u64: the wrapped value and whether the subtraction overflowed
U64Sub1(x) ==
    IF x = U64Zero THEN [value |-> U64Max, overflow |-> TRUE]
    ELSE LET i == CHOOSE k \in 1..4 : x[k] # 0 /\ \A j \in (k + 1)..4 : x[j] = 0
         IN  [value |-> [k \in 1..4 |-> IF k < i THEN x[k]
                                        ELSE IF k = i THEN x[k] - 1
                                        ELSE LimbBase - 1],
              overflow |-> FALSE]

-----------------------------------------------------------------------------
(* XML text: tokens, lines, files *)

NoAttrs == <<>>

Attr(n, v) == [name |-> n, value |-> v]

StartTok(n, attrs) == [kind |-> "start", name |-> n, attrs |-> attrs]

EndTok(n) == [kind |-> "end", name |-> n, attrs |-> NoAttrs]

TextTok == [kind |-> "text", name |-> "", attrs |-> NoAttrs]

\* a piece of malformed markup: the tokenizer reports an error on it
BadTok == [kind |-> "bad", name |-> "", attrs |-> NoAttrs]

\* the elements a generated file is made of
ElemA == [name |-> "string", attrs |-> <<Attr("name", "a")>>, text |-> TRUE]

ElemB == [name |-> "string", attrs |-> <<Attr("name", "b")>>, text |-> TRUE]

ElemN == [name |-> "nested", attrs |-> NoAttrs, text |-> FALSE]

Elems == {ElemA, ElemB, ElemN}

\* the token sequences of the forests of exactly n nodes
RECURSIVE Forest(_)
Forest(n) ==
    IF n = 0 THEN {<<>>}
    ELSE UNION {
           { <<StartTok(e.name, e.attrs)>>
                \o (IF e.text THEN <<TextTok>> ELSE <<>>)
                \o inner \o <<EndTok(e.name)>> \o rest :
               inner \in Forest(k - 1), rest \in Forest(n - k) }
           : k \in 1..n, e \in Elems }
         \cup { <<BadTok>> \o rest : rest \in Forest(n - 1) }

\* the token sequences of the generated files: one root element, resources
DocTokens ==
    UNION { { <<StartTok("resources", NoAttrs)>> \o f \o <<EndTok("resources")>> :
              f \in Forest(n) } : n \in 0..MaxElems }

\* nesting depth of each token: a start-tag's depth is that of its element,
\* an end-tag's likewise; text has the depth of the element holding it
RECURSIVE TokDepths(_, _)
TokDepths(toks, d) ==
    IF toks = <<>> THEN <<>>
    ELSE LET t == Head(toks) IN
         IF t.kind = "start" THEN <<d + 1>> \o TokDepths(Tail(toks), d + 1)
         ELSE IF t.kind = "end" THEN <<d>> \o TokDepths(Tail(toks), d - 1)
         ELSE <<d + 1>> \o TokDepths(Tail(toks), d)

\* lay the tokens out in lines: a line break goes before every tag of depth
\* at most lay (never before the first token, never before text)
RECURSIVE LayoutLines(_, _, _, _)
LayoutLines(toks, depths, lay, cur) ==
    IF toks = <<>> THEN <<cur>>
    ELSE IF cur # <<>> /\ Head(toks).kind # "text" /\ Head(depths) <= lay
         THEN <<cur>> \o LayoutLines(Tail(toks), Tail(depths), lay, <<Head(toks)>>)
         ELSE LayoutLines(Tail(toks), Tail(depths), lay, Append(cur, Head(toks)))

\* a file: lines of tokens, each with its terminator; the last line has the
\* terminator eol when final, else none
MkFile(toks, lay, eol, final) ==
    LET ls == LayoutLines(toks, TokDepths(toks, 0), lay, <<>>) IN
    [i \in 1..Len(ls) |->
        [text |-> ls[i],
         eol  |-> IF i < Len(ls) \/ final THEN eol ELSE "NONE"]]

\* the layouts of the generated files: everything on one line; the root's
\* end-tag on a line of its own; each child of the root on its own line; each
\* grandchild too
Layouts == 0..3

\* line terminators of the generated files
Styles == {[eol |-> "LF", final |-> TRUE], [eol |-> "CRLF", final |-> TRUE],
           [eol |-> "LF", final |-> FALSE]}

\* str::lines(): the text of each line, terminator (LF or CRLF) stripped
Lines(content) == [i \in 1..Len(content) |-> content[i].text]

\* the tokens of a content with the row (0-based line index) of each
FlatTokens(content) ==
    Concat([i \in 1..Len(content) |->
              [j \in 1..Len(content[i].text) |->
                  [tok |-> content[i].text[j], row |-> i - 1]]])


-----------------------------------------------------------------------------
(* The XML tokenizer (xml-rs EventReader), consumed through next() and     *)
(* position(): it yields StartDocument, then one event per token, then     *)
(* EndDocument; malformed input yields an error.                           *)

ParserInit == [pos |-> 0, stack |-> <<>>, root |-> FALSE]

Event(k, n, a, r, p) == [kind |-> k, name |-> n, attrs |-> a, row |-> r, next |-> p]

ErrEvent(r, p) == Event("Err", "", NoAttrs, r, p)

\* parser.next() followed by parser.position(): the event, the row of the
\* token it was made from, and the parser state after it
NextEvent(content, p) ==
    LET toks == FlatTokens(content)
        adv  == [p EXCEPT !.pos = p.pos + 1]
    IN
    IF p.pos = 0 THEN Event("StartDocument", "", NoAttrs, 0, adv)
    ELSE IF p.pos > Len(toks)
    THEN IF p.stack # <<>> \/ ~p.root
         THEN ErrEvent(Len(content), adv)
         ELSE Event("EndDocument", "", NoAttrs, Len(content), adv)
    ELSE LET t == toks[p.pos].tok
             r == toks[p.pos].row
         IN
         CASE t.kind = "start" ->
                IF p.stack = <<>> /\ p.root
                THEN ErrEvent(r, adv)
                ELSE Event("StartElement", t.name, t.attrs, r,
                           [adv EXCEPT !.stack = Append(p.stack, t.name),
                                       !.root = TRUE])
           [] t.kind = "end" ->
                IF p.stack = <<>> \/ Last(p.stack) # t.name
                THEN ErrEvent(r, adv)
                ELSE Event("EndElement", t.name, NoAttrs, r,
                           [adv EXCEPT !.stack = Front(p.stack)])
           [] t.kind = "text" ->
                IF p.stack = <<>>
                THEN ErrEvent(r, adv)
                ELSE Event("Characters", "", NoAttrs, r, adv)
           [] OTHER -> ErrEvent(r, adv)

-----------------------------------------------------------------------------
(* ElementMatcher *)

\* ElementMatcher::for_local_name
for_local_name(local_name) ==
    [local_name |-> local_name, local_attribute_values |-> [k \in {} |-> ""]]

\* ElementMatcher::attr: HashMap::insert of (local_name, value)
attr(m, local_name, value) ==
    [m EXCEPT !.local_attribute_values =
        [k \in DOMAIN m.local_attribute_values \cup {local_name} |->
            IF k = local_name THEN value ELSE m.local_attribute_values[k]]]

\* ElementMatcher::matches
matches(m, name, attrs) ==
    IF m.local_name # name THEN FALSE
    ELSE \A i \in 1..Len(attrs) :
            attrs[i].name \in DOMAIN m.local_attribute_values
                => m.local_attribute_values[attrs[i].name] = attrs[i].value

-----------------------------------------------------------------------------
(* find_location_to_strip: the locals and the two tag handlers *)

None == [some |-> FALSE, start_line |-> 0, end_line |-> 0]

Some(s, e) == [some |-> TRUE, start_line |-> s, end_line |-> e]

\* the locals as a record, for the handlers below
Locals == [in_skipped_element |-> in_skipped_element, start_line |-> start_line,
           start_depth |-> start_depth, depth |-> depth]

\* the StartElement arm: the locals after it
OnStartElement(l, m, ev) ==
    LET d == l.depth + 1 IN
    IF matches(m, ev.name, ev.attrs)
    THEN [in_skipped_element |-> TRUE, start_line |-> ev.row,
          start_depth |-> d, depth |-> d]
    ELSE [l EXCEPT !.depth = d]

\* the EndElement arm: does it return the location?
EndReturns(l) == l.in_skipped_element /\ l.depth = l.start_depth

\* a variant of OnEndElement that leaves the depth as it is
OnEndElementKeepingDepth(l) == [l EXCEPT !.in_skipped_element = FALSE]

\* the EndElement arm when it does not return: the locals after it
OnEndElement(l) ==
    [l EXCEPT !.in_skipped_element = FALSE, !.depth = l.depth - 1]

SetLocals(l) ==
    /\ in_skipped_element' = l.in_skipped_element
    /\ start_line' = l.start_line
    /\ start_depth' = l.start_depth
    /\ depth' = l.depth

-----------------------------------------------------------------------------
(* remove_element: the rewrite loop *)

\* the test of the rewrite loop: is the line written back?
KeepLine(ln, loc) ==
    \/ U64Less(ln, U64FromNat(loc.start_line))
    \/ U64Less(U64FromNat(loc.end_line), ln)

\* the counter update that ends each iteration of the rewrite loop
StepLineNumber(ln) == U64Sub1(ln)

-----------------------------------------------------------------------------
(* The parts at rest, for the specifications that do not run them *)

\* the editor at rest, for the specifications that do not run it
IdleEdit ==
    /\ file = <<>>
    /\ file_content = <<>>
    /\ matcher = for_local_name("")
    /\ overflow_checks = FALSE
    /\ pc = "idle"
    /\ parser = ParserInit
    /\ in_skipped_element = FALSE
    /\ start_line = 0
    /\ start_depth = -1
    /\ depth = 0
    /\ location = None
    /\ line_number = U64Zero
    /\ idx = 1
    /\ result = "none"
    /\ opened = FALSE

IdleMatch ==
    /\ q_matcher = for_local_name("")
    /\ q_elem = [name |-> "", attrs |-> NoAttrs]
    /\ q_result = "none"

NoView == [op |-> "none", value |-> {}]

IdleIndex ==
    /\ files = <<>>
    /\ view = NoView

Workers == 1..NumWorkers

NoEntry == [path |-> "", dir |-> "", kind |-> "none", ok |-> FALSE,
            defs |-> <<>>, usages |-> <<>>]

NoRecord == [path |-> "", string_definitions |-> <<>>, string_usages |-> <<>>]

\* a walker thread that does not exist (yet)
NoWorker == [pc |-> "none", entry |-> NoEntry, rec |-> NoRecord]

IdleWalk ==
    /\ disk = {}
    /\ roots = [java_root |-> "", res_root |-> "", manifest_root |-> ""]
    /\ phase = "none"
    /\ cpc = "idle"
    /\ pending = {}
    /\ workers = [w \in Workers |-> NoWorker]
    /\ tx_count = 0
    /\ rx_alive = FALSE
    /\ chan = <<>>
    /\ collector = "none"
    /\ results = <<>>
    /\ chan2 = <<>>
    /\ xml_files = <<>>
    /\ warnings = {}
    /\ panicked = {}

\* no cache file, no cache call made
Absent == [exists |-> FALSE, bytes |-> <<>>]

NoCall == [op |-> "none", ok |-> FALSE, files |-> <<>>]

Never == [some |-> FALSE, files |-> <<>>]

IdleCache ==
    /\ cache_file = Absent
    /\ saved = Never
    /\ c_result = NoCall

NotReturned == [returned |-> FALSE, path |-> "", string_definitions |-> <<>>,
                string_usages |-> <<>>]

IdleSource ==
    /\ s_file = <<>>
    /\ s_line = 0
    /\ s_usages = <<>>
    /\ s_result = NotReturned

NotReturnedXml == [returned |-> FALSE, ok |-> FALSE, path |-> "",
                   string_definitions |-> <<>>, string_usages |-> <<>>]

IdleXml ==
    /\ x_events = <<>>
    /\ x_pos = 0
    /\ x_defs = <<>>
    /\ x_usages = <<>>
    /\ x_result = NotReturnedXml

-----------------------------------------------------------------------------
(* Actions of remove_element *)

\* fs::read_to_string, then entry into find_location_to_strip
Read ==
    /\ pc = "read"
    /\ file_content' = file
    /\ parser' = ParserInit
    /\ in_skipped_element' = FALSE
    /\ start_line' = 0
    /\ start_depth' = -1
    /\ depth' = 0
    /\ pc' = "scan"
    /\ UNCHANGED <<file, matcher, overflow_checks, location, line_number, idx,
                   result, opened>>
    /\ UNCHANGED notEdit

ScanStartElement ==
    /\ pc = "scan"
    /\ LET ev == NextEvent(file_content, parser) IN
       /\ ev.kind = "StartElement"
       /\ parser' = ev.next
       /\ SetLocals(OnStartElement(Locals, matcher, ev))
    /\ UNCHANGED <<file, file_content, matcher, overflow_checks, pc, location,
                   line_number, idx, result, opened>>
    /\ UNCHANGED notEdit

ScanEndElement ==
    /\ pc = "scan"
    /\ LET ev == NextEvent(file_content, parser) IN
       /\ ev.kind = "EndElement"
       /\ parser' = ev.next
       /\ IF EndReturns(Locals)
          THEN /\ location' = Some(start_line, ev.row)
               /\ pc' = "create"
               /\ UNCHANGED <<in_skipped_element, start_line, start_depth, depth>>
          ELSE /\ SetLocals(OnEndElement(Locals))
               /\ UNCHANGED <<location, pc>>
    /\ UNCHANGED <<file, file_content, matcher, overflow_checks, line_number,
                   idx, result, opened>>
    /\ UNCHANGED notEdit

\* a variant of ScanEndDocument that reports a location at the end of the
\* document instead of None
ScanEndDocumentAsFound ==
    /\ pc = "scan"
    /\ LET ev == NextEvent(file_content, parser) IN
       /\ ev.kind = "EndDocument"
       /\ parser' = ev.next
       /\ location' = Some(start_line, ev.row)
    /\ pc' = "create"
    /\ UNCHANGED <<file, file_content, matcher, overflow_checks,
                   in_skipped_element, start_line, start_depth, depth,
                   line_number, idx, result, opened>>
    /\ UNCHANGED notEdit

\* Ok(None) from the scan, Ok(false) from remove_element
ScanEndDocument ==
    /\ pc = "scan"
    /\ LET ev == NextEvent(file_content, parser) IN
       /\ ev.kind = "EndDocument"
       /\ parser' = ev.next
    /\ location' = None
    /\ result' = "false"
    /\ pc' = "done"
    /\ UNCHANGED <<file, file_content, matcher, overflow_checks,
                   in_skipped_element, start_line, start_depth, depth,
                   line_number, idx, opened>>
    /\ UNCHANGED notEdit

\* a variant of ScanErr in which the error falls through to the catch-all arm
\* and the scan goes on
ScanErrSwallowed ==
    /\ pc = "scan"
    /\ LET ev == NextEvent(file_content, parser) IN
       /\ ev.kind = "Err"
       /\ parser' = ev.next
    /\ UNCHANGED <<file, file_content, matcher, overflow_checks, pc,
                   in_skipped_element, start_line, start_depth, depth, location,
                   line_number, idx, result, opened>>
    /\ UNCHANGED notEdit

\* Err from the scan, passed on by the ? in remove_element
ScanErr ==
    /\ pc = "scan"
    /\ LET ev == NextEvent(file_content, parser) IN
       /\ ev.kind = "Err"
       /\ parser' = ev.next
    /\ result' = "err"
    /\ pc' = "done"
    /\ UNCHANGED <<file, file_content, matcher, overflow_checks,
                   in_skipped_element, start_line, start_depth, depth, location,
                   line_number, idx, opened>>
    /\ UNCHANGED notEdit

\* every other event
ScanOther ==
    /\ pc = "scan"
    /\ LET ev == NextEvent(file_content, parser) IN
       /\ ev.kind \in {"StartDocument", "Characters"}
       /\ parser' = ev.next
    /\ UNCHANGED <<file, file_content, matcher, overflow_checks, pc,
                   in_skipped_element, start_line, start_depth, depth, location,
                   line_number, idx, result, opened>>
    /\ UNCHANGED notEdit

\* File::create truncates the file; the loop counter starts at 0
Create ==
    /\ pc = "create"
    /\ file' = <<>>
    /\ opened' = TRUE
    /\ line_number' = U64Zero
    /\ idx' = 1
    /\ pc' = "loop"
    /\ UNCHANGED <<file_content, matcher, overflow_checks, parser,
                   in_skipped_element, start_line, start_depth, depth, location,
                   result>>
    /\ UNCHANGED notEdit

\* one iteration of the rewrite loop. With overflow checks the counter update
\* panics when it overflows (the LineWriter is flushed as the stack unwinds);
\* without them it wraps.
WriteLine ==
    /\ pc = "loop"
    /\ idx <= Len(Lines(file_content))
    /\ file' = IF KeepLine(line_number, location)
               THEN Append(file, [text |-> Lines(file_content)[idx], eol |-> "LF"])
               ELSE file
    /\ LET s == StepLineNumber(line_number) IN
       IF s.overflow /\ overflow_checks
       THEN /\ result' = "panic"
            /\ pc' = "done"
            /\ UNCHANGED <<line_number, idx>>
       ELSE /\ line_number' = s.value
            /\ idx' = idx + 1
            /\ UNCHANGED <<result, pc>>
    /\ UNCHANGED <<file_content, matcher, overflow_checks, parser,
                   in_skipped_element, start_line, start_depth, depth, location,
                   opened>>
    /\ UNCHANGED notEdit

\* the loop is over: Ok(true)
LoopEnd ==
    /\ pc = "loop"
    /\ idx > Len(Lines(file_content))
    /\ result' = "true"
    /\ pc' = "done"
    /\ UNCHANGED <<file, file_content, matcher, overflow_checks, parser,
                   in_skipped_element, start_line, start_depth, depth, location,
                   line_number, idx, opened>>
    /\ UNCHANGED notEdit

\* the caller invokes remove_element again on the same path with the same
\* matcher; the locals of the call that returned are gone
CallAgain ==
    /\ pc = "done"
    /\ result # "panic"
    /\ pc' = "read"
    /\ file_content' = <<>>
    /\ parser' = ParserInit
    /\ in_skipped_element' = FALSE
    /\ start_line' = 0
    /\ start_depth' = -1
    /\ depth' = 0
    /\ location' = None
    /\ line_number' = U64Zero
    /\ idx' = 1
    /\ result' = "none"
    /\ opened' = FALSE
    /\ UNCHANGED <<file, matcher, overflow_checks>>
    /\ UNCHANGED notEdit

\* the matcher of the remove-unused command: string elements named a
StringNamed(x) == attr(for_local_name("string"), "name", x)

InitEdit ==
    /\ IdleMatch
    /\ IdleIndex
    /\ IdleWalk
    /\ IdleSource
    /\ IdleXml
    /\ IdleCache
    /\ \E toks \in DocTokens, lay \in Layouts, st \in Styles :
          file = MkFile(toks, lay, st.eol, st.final)
    /\ file_content = <<>>
    /\ matcher = StringNamed("a")
    /\ overflow_checks \in BOOLEAN
    /\ pc = "read"
    /\ parser = ParserInit
    /\ in_skipped_element = FALSE
    /\ start_line = 0
    /\ start_depth = -1
    /\ depth = 0
    /\ location = None
    /\ line_number = U64Zero
    /\ idx = 1
    /\ result = "none"
    /\ opened = FALSE

NextEdit ==
    \/ Read
    \/ ScanStartElement
    \/ ScanEndElement
    \/ ScanEndDocument
    \/ ScanErr
    \/ ScanOther
    \/ Create
    \/ WriteLine
    \/ LoopEnd
    \/ CallAgain

SpecEdit == InitEdit /\ [][NextEdit]_vars

-----------------------------------------------------------------------------
(* ElementMatcher on its own: a matcher is built with for_local_name and   *)
(* attr, then matches is applied to one element.                           *)

ElemNames == {"string", "item"}

\* attribute names a matcher may require, and those an element may carry:
\* name can be both required and carried, id can be required but is never
\* carried, lang is carried but never required
RequiredAttrNames == {"name", "id"}

CarriedAttrNames == {"name", "lang"}

AttrValues == {"a", "b"}

\* attribute lists without a repeated name (the tokenizer rejects a repeated
\* attribute), in every order
AttrLists ==
    {<<>>}
    \cup { <<Attr(n, v)>> : n \in CarriedAttrNames, v \in AttrValues }
    \cup { l \in { <<Attr(n1, v1), Attr(n2, v2)>> :
                      n1 \in CarriedAttrNames, n2 \in CarriedAttrNames,
                      v1 \in AttrValues, v2 \in AttrValues } :
             l[1].name # l[2].name }

\* matcher.attr(k, v)
AddAttr ==
    /\ q_result = "none"
    /\ \E k \in RequiredAttrNames, v \in AttrValues :
          q_matcher' = attr(q_matcher, k, v)
    /\ UNCHANGED <<q_elem, q_result>>
    /\ UNCHANGED notMatch

\* matcher.matches(&name, &attributes)
Match ==
    /\ q_result = "none"
    /\ q_result' = IF matches(q_matcher, q_elem.name, q_elem.attrs)
                   THEN "true" ELSE "false"
    /\ UNCHANGED <<q_matcher, q_elem>>
    /\ UNCHANGED notMatch

InitMatch ==
    /\ IdleEdit
    /\ IdleIndex
    /\ IdleWalk
    /\ IdleSource
    /\ IdleXml
    /\ IdleCache
    /\ \E n \in ElemNames : q_matcher = for_local_name(n)
    /\ \E n \in ElemNames, a \in AttrLists : q_elem = [name |-> n, attrs |-> a]
    /\ q_result = "none"

NextMatch ==
    \/ AddAttr
    \/ Match

SpecMatch == InitMatch /\ [][NextMatch]_vars

-----------------------------------------------------------------------------
(* ResourceIndex: the views over the record list *)

ResourceFile(path, defs, usages) ==
    [path |-> path, string_definitions |-> defs, string_usages |-> usages]

\* MultiMap::new and MultiMap::insert: a key maps to the values inserted
\* under it, in the order of insertion
EmptyMultiMap == [k \in {} |-> <<>>]

MultiMapInsert(m, k, v) ==
    [x \in DOMAIN m \cup {k} |->
        IF x # k THEN m[x]
        ELSE IF k \in DOMAIN m THEN Append(m[k], v) ELSE <<v>>]

\* insert path under each key of keys, in order
RECURSIVE InsertKeys(_, _, _)
InsertKeys(m, keys, path) ==
    IF keys = <<>> THEN m
    ELSE InsertKeys(MultiMapInsert(m, Head(keys), path), Tail(keys), path)

\* ResourceIndex::files_for_definition
RECURSIVE files_for_definition(_)
files_for_definition(fs) ==
    IF fs = <<>> THEN EmptyMultiMap
    ELSE InsertKeys(files_for_definition(Front(fs)),
                    Last(fs).string_definitions, Last(fs).path)

\* ResourceIndex::files_for_usage reading the declarations of each file
\* instead of its usages
files_for_usage_of_definitions(fs) == files_for_definition(fs)

\* ResourceIndex::files_for_usage
RECURSIVE files_for_usage(_)
files_for_usage(fs) ==
    IF fs = <<>> THEN EmptyMultiMap
    ELSE InsertKeys(files_for_usage(Front(fs)),
                    Last(fs).string_usages, Last(fs).path)

\* ResourceIndex::defined_strings: insert every key of every file, in order
RECURSIVE defined_strings(_)
defined_strings(fs) ==
    IF fs = <<>> THEN {}
    ELSE defined_strings(Front(fs))
         \cup { Last(fs).string_definitions[i] :
                  i \in 1..Len(Last(fs).string_definitions) }

\* ResourceIndex::used_strings
RECURSIVE used_strings(_)
used_strings(fs) ==
    IF fs = <<>> THEN {}
    ELSE used_strings(Front(fs))
         \cup { Last(fs).string_usages[i] : i \in 1..Len(Last(fs).string_usages) }

\* ResourceIndex::unused_strings with the operands of the difference swapped
unused_strings_swapped(fs) == used_strings(fs) \ defined_strings(fs)

\* ResourceIndex::unused_strings: defined_strings.difference(&used_strings)
unused_strings(fs) == defined_strings(fs) \ used_strings(fs)

Ids == {"x", "y"}

Paths == {"p", "q"}

\* the identifier lists of the generated records
IdLists == {<<>>} \cup { <<i>> : i \in Ids } \cup {<<"x", "y">>, <<"x", "x">>}

Records ==
    { ResourceFile(p, d, u) : p \in Paths, d \in IdLists, u \in IdLists }

\* the record lists of at most n records
RECURSIVE RecordLists(_)
RecordLists(n) ==
    IF n = 0 THEN {<<>>}
    ELSE RecordLists(n - 1)
         \cup { Append(l, r) : l \in { x \in RecordLists(n - 1) : Len(x) = n - 1 },
                                r \in Records }

\* a ResourceIndex exists: made by ResourceIndex::new on a given record list
\* (no walk), or returned by index()
HasIndex == phase \in {"none", "done"}

DefinedStrings ==
    /\ HasIndex
    /\ view' = [op |-> "defined_strings", value |-> defined_strings(files)]
    /\ UNCHANGED files
    /\ UNCHANGED notIndex

UsedStrings ==
    /\ HasIndex
    /\ view' = [op |-> "used_strings", value |-> used_strings(files)]
    /\ UNCHANGED files
    /\ UNCHANGED notIndex

UnusedStrings ==
    /\ HasIndex
    /\ view' = [op |-> "unused_strings", value |-> unused_strings(files)]
    /\ UNCHANGED files
    /\ UNCHANGED notIndex

FilesForDefinition ==
    /\ HasIndex
    /\ view' = [op |-> "files_for_definition",
                value |-> files_for_definition(files)]
    /\ UNCHANGED files
    /\ UNCHANGED notIndex

FilesForUsage ==
    /\ HasIndex
    /\ view' = [op |-> "files_for_usage", value |-> files_for_usage(files)]
    /\ UNCHANGED files
    /\ UNCHANGED notIndex

\* ResourceIndex::new on a record list, no view computed yet
InitIndex ==
    /\ IdleEdit
    /\ IdleMatch
    /\ IdleWalk
    /\ IdleSource
    /\ IdleXml
    /\ IdleCache
    /\ files \in RecordLists(MaxRecords)
    /\ view = NoView

NextIndex ==
    \/ DefinedStrings
    \/ UsedStrings
    \/ UnusedStrings
    \/ FilesForDefinition
    \/ FilesForUsage

SpecIndex == InitIndex /\ [][NextIndex]_vars

-----------------------------------------------------------------------------
(* Indexer: the file system it walks *)

\* the directories: top holds res, man and src
Dirs == {"top", "res", "man", "src"}

DirsUnder(root) == IF root = "top" THEN Dirs ELSE {root}

\* the files that may be on disk: path, directory, kind of name, and what an
\* extractor finds in the content
FileUniverse ==
    { [path |-> "res/strings.xml", dir |-> "res", kind |-> "xml",
       defs |-> <<"some_app">>, usages |-> <<>>],
      [path |-> "res/layout.xml", dir |-> "res", kind |-> "xml",
       defs |-> <<>>, usages |-> <<"title">>],
      [path |-> "man/AndroidManifest.xml", dir |-> "man", kind |-> "manifest",
       defs |-> <<>>, usages |-> <<"some_app">>],
      [path |-> "src/Test.java", dir |-> "src", kind |-> "java",
       defs |-> <<>>, usages |-> <<"foo", "bar">>] }

\* a file on disk: ok tells whether its content can be read and parsed
OnDisk(f, ok) ==
    [path |-> f.path, dir |-> f.dir, kind |-> f.kind, ok |-> ok,
     defs |-> f.defs, usages |-> f.usages]

\* the file systems: each file of the universe absent, sound or broken
FileSystems ==
    { UNION { IF st[f] = "absent" THEN {} ELSE {OnDisk(f, st[f] = "ok")} :
              f \in FileUniverse } :
      st \in [FileUniverse -> {"absent", "ok", "broken"}] }

DirEntry(d) == [path |-> d, dir |-> d, kind |-> "dir", ok |-> FALSE,
                defs |-> <<>>, usages |-> <<>>]

\* the kinds of file name an override glob lets through
GlobKinds(pattern) ==
    CASE pattern = "*.xml" -> {"xml", "manifest"}
      [] pattern = "AndroidManifest.xml" -> {"manifest"}
      [] pattern = "*.java" -> {"java"}
      [] pattern = "*.kt" -> {"kt"}

\* what a walker built on root with these override globs yields: every
\* directory from the root down, and the files the globs let through
Entries(dk, root, patterns) ==
    { DirEntry(d) : d \in DirsUnder(root) }
    \cup { f \in dk : f.dir \in DirsUnder(root)
                        /\ \E pt \in patterns : f.kind \in GlobKinds(pt) }

is_file(e) == e.kind # "dir"

-----------------------------------------------------------------------------
(* Indexer: construction and the extractors, as far as the walks need them *)

\* Indexer::new: the manifest root defaults to the resource root
new(java_root, res_root, manifest_root) ==
    [java_root |-> java_root, res_root |-> res_root,
     manifest_root |-> IF manifest_root = "None" THEN res_root ELSE manifest_root]

Ok(v) == [ok |-> TRUE, value |-> v]

Err == [ok |-> FALSE, value |-> NoRecord]

\* Indexer::index_xml_file on a directory entry that is a file
index_xml_file(e) ==
    IF e.ok THEN Ok(ResourceFile(e.path, e.defs, e.usages)) ELSE Err

\* Indexer::index_source_file on any directory entry: a directory cannot be
\* searched
index_source_file(e) ==
    IF is_file(e) /\ e.ok THEN Ok(ResourceFile(e.path, <<>>, e.usages)) ELSE Err

\* the root and the override globs of the walk index() is in
WalkRoot(ph) ==
    CASE ph = "res" -> roots.res_root
      [] ph = "manifest" -> roots.manifest_root
      [] ph = "src" -> roots.java_root

WalkPatterns(ph) ==
    CASE ph = "res" -> {"*.xml"}
      [] ph = "manifest" -> {"AndroidManifest.xml"}
      [] ph = "src" -> {"*.java", "*.kt"}

Walking == phase \in {"res", "manifest", "src"}

-----------------------------------------------------------------------------
(* index_xml_files and index_source_files: caller, collector and workers   *)

\* a variant of CallWalk in which rx is not moved into the collector but
\* dropped: the collector has nothing to receive from
CallWalkDroppingRx ==
    /\ Walking
    /\ cpc = "call"
    /\ tx_count' = 1
    /\ rx_alive' = FALSE
    /\ chan' = <<>>
    /\ chan2' = <<>>
    /\ collector' = "send"
    /\ results' = <<>>
    /\ pending' = Entries(disk, WalkRoot(phase), WalkPatterns(phase))
    /\ workers' = [w \in Workers |-> NoWorker]
    /\ cpc' = "spawned"
    /\ UNCHANGED <<disk, roots, phase, xml_files, warnings, panicked, ivars>>
    /\ UNCHANGED notWalk

\* mpsc::channel twice, thread::spawn of the collector, build_parallel
CallWalk ==
    /\ Walking
    /\ cpc = "call"
    /\ tx_count' = 1
    /\ rx_alive' = TRUE
    /\ chan' = <<>>
    /\ chan2' = <<>>
    /\ collector' = "recv"
    /\ results' = <<>>
    /\ pending' = Entries(disk, WalkRoot(phase), WalkPatterns(phase))
    /\ workers' = [w \in Workers |-> NoWorker]
    /\ cpc' = "spawned"
    /\ UNCHANGED <<disk, roots, phase, xml_files, warnings, panicked, ivars>>
    /\ UNCHANGED notWalk

\* walker.run calls the factory once per thread: each gets a clone of tx
StartWorkers ==
    /\ Walking
    /\ cpc = "spawned"
    /\ workers' = [w \in Workers |-> [NoWorker EXCEPT !.pc = "idle"]]
    /\ tx_count' = tx_count + NumWorkers
    /\ cpc' = "run"
    /\ UNCHANGED <<disk, roots, phase, pending, rx_alive, chan, collector, results,
                   chan2, xml_files, warnings, panicked, ivars>>
    /\ UNCHANGED notWalk

\* the walker hands the next directory entry to a waiting thread
Take(w) ==
    /\ workers[w].pc = "idle"
    /\ \E e \in pending :
          /\ pending' = pending \ {e}
          /\ workers' = [workers EXCEPT ![w].pc = "visit", ![w].entry = e]
    /\ UNCHANGED <<disk, roots, phase, cpc, tx_count, rx_alive, chan, collector,
                   results, chan2, xml_files, warnings, panicked, ivars>>
    /\ UNCHANGED notWalk

\* the visitor of index_xml_files up to the send: directories are skipped, a
\* failed extraction is logged
VisitXml(w) ==
    /\ phase \in {"res", "manifest"}
    /\ workers[w].pc = "visit"
    /\ LET e == workers[w].entry
           r == index_xml_file(e)
       IN
       IF ~is_file(e)
       THEN /\ workers' = [workers EXCEPT ![w] = [NoWorker EXCEPT !.pc = "idle"]]
            /\ UNCHANGED warnings
       ELSE IF r.ok
       THEN /\ workers' = [workers EXCEPT ![w].pc = "send", ![w].rec = r.value]
            /\ UNCHANGED warnings
       ELSE /\ workers' = [workers EXCEPT ![w] = [NoWorker EXCEPT !.pc = "idle"]]
            /\ warnings' = warnings \cup {[walk |-> phase, path |-> e.path]}
    /\ UNCHANGED <<disk, roots, phase, cpc, pending, tx_count, rx_alive, chan,
                   collector, results, chan2, xml_files, panicked, ivars>>
    /\ UNCHANGED notWalk

\* the visitor of index_source_files up to the send: every entry is
\* extracted, a failed extraction is passed over
VisitSource(w) ==
    /\ phase = "src"
    /\ workers[w].pc = "visit"
    /\ LET r == index_source_file(workers[w].entry) IN
       IF r.ok
       THEN workers' = [workers EXCEPT ![w].pc = "send", ![w].rec = r.value]
       ELSE workers' = [workers EXCEPT ![w] = [NoWorker EXCEPT !.pc = "idle"]]
    /\ UNCHANGED <<disk, roots, phase, cpc, pending, tx_count, rx_alive, chan,
                   collector, results, chan2, xml_files, warnings, panicked,
                   ivars>>
    /\ UNCHANGED notWalk

\* tx.send(index).unwrap(): the send fails, and the unwrap panics, when the
\* Receiver is gone
Send(w) ==
    /\ workers[w].pc = "send"
    /\ IF rx_alive
       THEN /\ chan' = Append(chan, workers[w].rec)
            /\ workers' = [workers EXCEPT ![w] = [NoWorker EXCEPT !.pc = "idle"]]
            /\ UNCHANGED <<tx_count, panicked>>
       ELSE /\ panicked' = panicked \cup {w}
            /\ workers' = [workers EXCEPT ![w] = [NoWorker EXCEPT !.pc = "exit"]]
            /\ tx_count' = tx_count - 1
            /\ UNCHANGED chan
    /\ UNCHANGED <<disk, roots, phase, cpc, pending, rx_alive, collector, results,
                   chan2, xml_files, warnings, ivars>>
    /\ UNCHANGED notWalk

\* nothing is left to visit: the thread ends and its visitor, with the clone
\* of tx it owns, is dropped
Exit(w) ==
    /\ workers[w].pc = "idle"
    /\ pending = {}
    /\ workers' = [workers EXCEPT ![w].pc = "exit"]
    /\ tx_count' = tx_count - 1
    /\ UNCHANGED <<disk, roots, phase, cpc, pending, rx_alive, chan, collector,
                   results, chan2, xml_files, warnings, panicked, ivars>>
    /\ UNCHANGED notWalk

\* a variant of RunReturns in which the original tx outlives walker.run (the
\* factory closure borrows tx instead of owning it)
RunReturnsKeepingTx ==
    /\ Walking
    /\ cpc = "run"
    /\ \A w \in Workers : workers[w].pc = "exit"
    /\ cpc' = "recv"
    /\ UNCHANGED <<disk, roots, phase, pending, workers, tx_count, rx_alive, chan,
                   collector, results, chan2, xml_files, warnings, panicked, ivars>>
    /\ UNCHANGED notWalk

\* walker.run has joined every thread and returns: the factory closure, and
\* the original tx it owns, is dropped
RunReturns ==
    /\ Walking
    /\ cpc = "run"
    /\ \A w \in Workers : workers[w].pc = "exit"
    /\ tx_count' = tx_count - 1
    /\ cpc' = "recv"
    /\ UNCHANGED <<disk, roots, phase, pending, workers, rx_alive, chan, collector,
                   results, chan2, xml_files, warnings, panicked, ivars>>
    /\ UNCHANGED notWalk

\* a variant of CollectorRecv that keeps only the record received last
CollectorRecvOverwrite ==
    /\ collector = "recv"
    /\ chan # <<>>
    /\ results' = <<Head(chan)>>
    /\ chan' = Tail(chan)
    /\ UNCHANGED <<disk, roots, phase, cpc, pending, workers, tx_count, rx_alive,
                   collector, chan2, xml_files, warnings, panicked, ivars>>
    /\ UNCHANGED notWalk

\* the collector's loop body: for received in rx { results.push(received) }
CollectorRecv ==
    /\ collector = "recv"
    /\ chan # <<>>
    /\ results' = Append(results, Head(chan))
    /\ chan' = Tail(chan)
    /\ UNCHANGED <<disk, roots, phase, cpc, pending, workers, tx_count, rx_alive,
                   collector, chan2, xml_files, warnings, panicked, ivars>>
    /\ UNCHANGED notWalk

\* a variant of CollectorLoopEnd that stops as soon as the channel is empty,
\* whether or not Senders remain
CollectorLoopEndOnEmpty ==
    /\ collector = "recv"
    /\ chan = <<>>
    /\ rx_alive' = FALSE
    /\ collector' = "send"
    /\ UNCHANGED <<disk, roots, phase, cpc, pending, workers, tx_count, chan,
                   results, chan2, xml_files, warnings, panicked, ivars>>
    /\ UNCHANGED notWalk

\* the iteration over rx ends when the channel is empty and every Sender is
\* dropped; rx is dropped with the loop
CollectorLoopEnd ==
    /\ collector = "recv"
    /\ chan = <<>>
    /\ tx_count = 0
    /\ rx_alive' = FALSE
    /\ collector' = "send"
    /\ UNCHANGED <<disk, roots, phase, cpc, pending, workers, tx_count, chan,
                   results, chan2, xml_files, warnings, panicked, ivars>>
    /\ UNCHANGED notWalk

\* tx2.send(results).unwrap(): the caller holds rx2 until it has received
CollectorSend ==
    /\ collector = "send"
    /\ IF cpc \in {"spawned", "run", "recv"}
       THEN chan2' = Append(chan2, results) /\ UNCHANGED panicked
       ELSE panicked' = panicked \cup {"collector"} /\ UNCHANGED chan2
    /\ collector' = "done"
    /\ UNCHANGED <<disk, roots, phase, cpc, pending, workers, tx_count, rx_alive,
                   chan, results, xml_files, warnings, ivars>>
    /\ UNCHANGED notWalk

\* overrides.add(pattern)? or overrides.build()? fails: the walk function
\* returns Err before any channel or thread is made, and the ? in index()
\* returns it
CallWalkErr ==
    /\ Walking
    /\ cpc = "call"
    /\ phase' = "failed"
    /\ cpc' = "returned"
    /\ UNCHANGED <<disk, roots, pending, workers, tx_count, rx_alive, chan,
                   collector, results, chan2, xml_files, warnings, panicked,
                   ivars>>
    /\ UNCHANGED notWalk

\* a variant of CallerRecv that does not block on rx2 (try_recv): it takes
\* the list when it is there and an empty one when it is not
CallerRecvWithoutWaiting ==
    /\ Walking
    /\ cpc = "recv"
    /\ chan2' = <<>>
    /\ LET got == IF chan2 # <<>> THEN Head(chan2) ELSE <<>> IN
       CASE phase = "res" ->
              /\ xml_files' = got
              /\ phase' = IF roots.manifest_root # roots.res_root
                          THEN "manifest" ELSE "src"
              /\ cpc' = "call"
              /\ UNCHANGED files
         [] phase = "manifest" ->
              /\ xml_files' = xml_files \o got
              /\ phase' = "src"
              /\ cpc' = "call"
              /\ UNCHANGED files
         [] phase = "src" ->
              /\ files' = got \o xml_files
              /\ phase' = "done"
              /\ cpc' = "returned"
              /\ UNCHANGED xml_files
    /\ UNCHANGED <<disk, roots, pending, workers, tx_count, rx_alive, chan,
                   collector, results, warnings, panicked, view>>
    /\ UNCHANGED notWalk

\* rx2.recv() returns the list and the walk function returns Ok(results);
\* index() goes on: the manifest walk is made when manifest_root differs from
\* res_root, and after the source walk the index is made of the source
\* records followed by the XML records
CallerRecv ==
    /\ Walking
    /\ cpc = "recv"
    /\ chan2 # <<>>
    /\ chan2' = Tail(chan2)
    /\ LET got == Head(chan2) IN
       CASE phase = "res" ->
              /\ xml_files' = got
              /\ phase' = IF roots.manifest_root # roots.res_root
                          THEN "manifest" ELSE "src"
              /\ cpc' = "call"
              /\ UNCHANGED files
         [] phase = "manifest" ->
              /\ xml_files' = xml_files \o got
              /\ phase' = "src"
              /\ cpc' = "call"
              /\ UNCHANGED files
         [] phase = "src" ->
              /\ files' = got \o xml_files
              /\ phase' = "done"
              /\ cpc' = "returned"
              /\ UNCHANGED xml_files
    /\ UNCHANGED <<disk, roots, pending, workers, tx_count, rx_alive, chan,
                   collector, results, warnings, panicked, view>>
    /\ UNCHANGED notWalk

\* Indexer::new on the three roots, then index() is called
InitWalk ==
    /\ IdleEdit
    /\ IdleMatch
    /\ IdleSource
    /\ IdleXml
    /\ IdleCache
    /\ files = <<>>
    /\ view = NoView
    /\ disk \in FileSystems
    /\ \E mr \in {"None", "res", "man", "top"} : roots = new("src", "res", mr)
    /\ phase = "res"
    /\ cpc = "call"
    /\ pending = {}
    /\ workers = [w \in Workers |-> NoWorker]
    /\ tx_count = 0
    /\ rx_alive = FALSE
    /\ chan = <<>>
    /\ collector = "none"
    /\ results = <<>>
    /\ chan2 = <<>>
    /\ xml_files = <<>>
    /\ warnings = {}
    /\ panicked = {}

NextWalk ==
    \/ CallWalk
    \/ StartWorkers
    \/ \E w \in Workers : Take(w)
    \/ \E w \in Workers : VisitXml(w)
    \/ \E w \in Workers : VisitSource(w)
    \/ \E w \in Workers : Send(w)
    \/ \E w \in Workers : Exit(w)
    \/ RunReturns
    \/ CollectorRecv
    \/ CollectorLoopEnd
    \/ CollectorSend
    \/ CallerRecv
    \/ DefinedStrings
    \/ UsedStrings
    \/ UnusedStrings

SpecWalk == InitWalk /\ [][NextWalk]_vars

\* the files on disk when the roots are arranged in every way: a manifest
\* may lie in the resource directory as well as in its own
RootsUniverse ==
    { [path |-> "res/strings.xml", dir |-> "res", kind |-> "xml",
       defs |-> <<"some_app">>, usages |-> <<>>],
      [path |-> "res/AndroidManifest.xml", dir |-> "res", kind |-> "manifest",
       defs |-> <<>>, usages |-> <<"some_app">>],
      [path |-> "man/AndroidManifest.xml", dir |-> "man", kind |-> "manifest",
       defs |-> <<>>, usages |-> <<"some_app">>],
      [path |-> "src/Test.java", dir |-> "src", kind |-> "java",
       defs |-> <<>>, usages |-> <<"foo", "bar">>] }

RootsFileSystems ==
    { UNION { IF st[f] = "absent" THEN {} ELSE {OnDisk(f, st[f] = "ok")} :
              f \in RootsUniverse } :
      st \in [RootsUniverse -> {"absent", "ok", "broken"}] }

\* the arrangements of resource root and manifest root: manifest root
\* omitted, the same directory, another directory, a directory that holds
\* the resource root, a directory inside the resource root
RootConfigs ==
    { [res_root |-> "res", manifest_root |-> "None"],
      [res_root |-> "res", manifest_root |-> "res"],
      [res_root |-> "res", manifest_root |-> "man"],
      [res_root |-> "res", manifest_root |-> "top"],
      [res_root |-> "top", manifest_root |-> "res"] }

\* Indexer::new on roots in any arrangement, then index() is called
InitRoots ==
    /\ IdleEdit
    /\ IdleMatch
    /\ IdleCache
    /\ IdleSource
    /\ IdleXml
    /\ files = <<>>
    /\ view = NoView
    /\ disk \in RootsFileSystems
    /\ \E c \in RootConfigs : roots = new("src", c.res_root, c.manifest_root)
    /\ phase = "res"
    /\ cpc = "call"
    /\ pending = {}
    /\ workers = [w \in Workers |-> NoWorker]
    /\ tx_count = 0
    /\ rx_alive = FALSE
    /\ chan = <<>>
    /\ collector = "none"
    /\ results = <<>>
    /\ chan2 = <<>>
    /\ xml_files = <<>>
    /\ warnings = {}
    /\ panicked = {}

SpecRoots == InitRoots /\ [][NextWalk]_vars

\* index() where building the overrides of a walk may fail
NextWalkErr ==
    \/ NextWalk
    \/ CallWalkErr

SpecWalkErr == InitWalk /\ [][NextWalkErr]_vars

\* the scheduler runs every thread that can take a step: the caller, the
\* collector and each walker thread
FairWalk ==
    /\ SpecWalk
    /\ WF_vars(CallWalk \/ StartWorkers \/ RunReturns \/ CallerRecv)
    /\ WF_vars(CollectorRecv \/ CollectorLoopEnd \/ CollectorSend)
    /\ \A w \in Workers :
          WF_vars(Take(w) \/ VisitXml(w) \/ VisitSource(w) \/ Send(w) \/ Exit(w))

-----------------------------------------------------------------------------
(* The cache: bincode's encoding of a ResourceIndex, and the two calls     *)

\* what the encoding is made of: a u64 length prefix, the bytes of a string
U64(n) == [kind |-> "u64", n |-> n, s |-> ""]

Bytes(str) == [kind |-> "bytes", n |-> 0, s |-> str]

\* String: the length in bytes, then the bytes
EncString(str) == <<U64(Len(str)), Bytes(str)>>

\* Vec<String>: the number of elements, then each element
EncStrings(l) == <<U64(Len(l))>> \o Concat([i \in 1..Len(l) |-> EncString(l[i])])

\* ResourceFile: its fields in the order of declaration
EncFile(f) ==
    EncString(f.path) \o EncStrings(f.string_definitions)
                      \o EncStrings(f.string_usages)

\* bincode::serialize_into of a ResourceIndex: its one field, a Vec
bincode_serialize(fs) ==
    <<U64(Len(fs))>> \o Concat([i \in 1..Len(fs) |-> EncFile(fs[i])])

\* the decoders read from position i of the bytes b; each yields the value
\* and the position after it, or fails
DecFail == [ok |-> FALSE, value |-> <<>>, next |-> 0]

DecU64(b, i) ==
    IF i <= Len(b) /\ b[i].kind = "u64"
    THEN [ok |-> TRUE, value |-> b[i].n, next |-> i + 1]
    ELSE DecFail

DecString(b, i) ==
    LET n == DecU64(b, i) IN
    IF n.ok /\ n.next <= Len(b) /\ b[n.next].kind = "bytes"
            /\ Len(b[n.next].s) = n.value
    THEN [ok |-> TRUE, value |-> b[n.next].s, next |-> n.next + 1]
    ELSE DecFail

\* n more strings from position i, after those of acc
RECURSIVE DecStringsN(_, _, _, _)
DecStringsN(b, i, n, acc) ==
    IF n = 0 THEN [ok |-> TRUE, value |-> acc, next |-> i]
    ELSE LET x == DecString(b, i) IN
         IF x.ok THEN DecStringsN(b, x.next, n - 1, Append(acc, x.value))
         ELSE DecFail

DecStrings(b, i) ==
    LET n == DecU64(b, i) IN
    IF n.ok THEN DecStringsN(b, n.next, n.value, <<>>) ELSE DecFail

DecFile(b, i) ==
    LET path == DecString(b, i) IN
    IF ~path.ok THEN DecFail
    ELSE LET defs == DecStrings(b, path.next) IN
         IF ~defs.ok THEN DecFail
         ELSE LET usages == DecStrings(b, defs.next) IN
              IF ~usages.ok THEN DecFail
              ELSE [ok |-> TRUE,
                    value |-> [path |-> path.value,
                               string_definitions |-> defs.value,
                               string_usages |-> usages.value],
                    next |-> usages.next]

RECURSIVE DecFilesN(_, _, _, _)
DecFilesN(b, i, n, acc) ==
    IF n = 0 THEN [ok |-> TRUE, value |-> acc, next |-> i]
    ELSE LET x == DecFile(b, i) IN
         IF x.ok THEN DecFilesN(b, x.next, n - 1, Append(acc, x.value))
         ELSE DecFail

\* bincode::deserialize_from: a ResourceIndex read from the start of the
\* bytes; what follows it is not read
bincode_deserialize(b) ==
    LET n == DecU64(b, 1) IN
    IF n.ok THEN DecFilesN(b, n.next, n.value, <<>>) ELSE DecFail

\* the indexes a caller holds: none to two records, with empty lists, with
\* repeated and shared identifiers, with a repeated record
CacheIndexes ==
    { <<>>,
      <<[path |-> "p", string_definitions |-> <<"x">>, string_usages |-> <<>>]>>,
      <<[path |-> "q", string_definitions |-> <<>>, string_usages |-> <<"x", "x">>]>>,
      <<[path |-> "p", string_definitions |-> <<"x", "y">>, string_usages |-> <<>>],
        [path |-> "q", string_definitions |-> <<>>, string_usages |-> <<"x">>]>>,
      <<[path |-> "q", string_definitions |-> <<>>, string_usages |-> <<"x">>],
        [path |-> "p", string_definitions |-> <<"x", "y">>, string_usages |-> <<>>]>>,
      <<[path |-> "p", string_definitions |-> <<>>, string_usages |-> <<>>]>>,
      <<[path |-> "p", string_definitions |-> <<"y">>, string_usages |-> <<"y">>]>>,
      <<[path |-> "p", string_definitions |-> <<"x">>, string_usages |-> <<>>],
        [path |-> "p", string_definitions |-> <<"x">>, string_usages |-> <<>>]>> }

\* the caller comes to hold another index (ResourceIndex::new)
NewIndex ==
    /\ HasIndex
    /\ \E fs \in CacheIndexes : fs # files /\ files' = fs
    /\ c_result' = NoCall
    /\ UNCHANGED <<cache_file, saved>>
    /\ UNCHANGED notCache

\* a variant of Serialize that opens the cache file for appending instead of
\* truncating it
SerializeAppending ==
    /\ HasIndex
    /\ cache_file' = [exists |-> TRUE,
                      bytes |-> cache_file.bytes \o bincode_serialize(files)]
    /\ saved' = [some |-> TRUE, files |-> files]
    /\ c_result' = [op |-> "serialize", ok |-> TRUE, files |-> <<>>]
    /\ UNCHANGED files
    /\ UNCHANGED notCache

\* Indexer::serialize: File::create makes or truncates res_cache.bin, then
\* the index is encoded into it
Serialize ==
    /\ HasIndex
    /\ cache_file' = [exists |-> TRUE, bytes |-> bincode_serialize(files)]
    /\ saved' = [some |-> TRUE, files |-> files]
    /\ c_result' = [op |-> "serialize", ok |-> TRUE, files |-> <<>>]
    /\ UNCHANGED files
    /\ UNCHANGED notCache

\* Indexer::deserialize: File::open fails when there is no cache file, the
\* decoder fails on bytes that are no ResourceIndex
Deserialize ==
    /\ HasIndex
    /\ c_result' =
         IF ~cache_file.exists
         THEN [op |-> "deserialize", ok |-> FALSE, files |-> <<>>]
         ELSE LET d == bincode_deserialize(cache_file.bytes) IN
              [op |-> "deserialize", ok |-> d.ok, files |-> d.value]
    /\ UNCHANGED <<cache_file, saved, files>>
    /\ UNCHANGED notCache

\* an Indexer with an empty cache directory, and an index in memory
InitCache ==
    /\ IdleEdit
    /\ IdleMatch
    /\ IdleWalk
    /\ IdleSource
    /\ IdleXml
    /\ files \in CacheIndexes
    /\ view = NoView
    /\ cache_file = Absent
    /\ saved = Never
    /\ c_result = NoCall

NextCache ==
    \/ NewIndex
    \/ Serialize
    \/ Deserialize

SpecCache == InitCache /\ [][NextCache]_vars

-----------------------------------------------------------------------------
(* index_source_file: the regex R.string.(\w+) searched line by line       *)

\* A line is a sequence of pieces of text; a piece of one character stands
\* for that character, the longer ones (string, foo, bar) are runs of word
\* characters that the generated lines never split.

\* \w: letters, digits and the underscore
IsWord(a) == a \in {"R", "string", "foo", "bar", "_"}

\* the regex . : any one character (a line holds no line feed)
IsAnyChar(a) == Len(a) = 1

\* the last position of the run of word pieces that starts at j
RECURSIVE WordRunEnd(_, _)
WordRunEnd(line, j) ==
    IF j < Len(line) /\ IsWord(line[j + 1]) THEN WordRunEnd(line, j + 1) ELSE j

\* the regex of line 177 matches at position i: R, any character, string,
\* any character, one or more word characters
RegexMatchesAt(line, i) ==
    /\ i + 4 <= Len(line)
    /\ line[i] = "R"
    /\ IsAnyChar(line[i + 1])
    /\ line[i + 2] = "string"
    /\ IsAnyChar(line[i + 3])
    /\ IsWord(line[i + 4])

\* matcher.find_iter(line): the matches from position i on, leftmost first,
\* none overlapping another, each as the range of the matched text
RECURSIVE find_iter(_, _)
find_iter(line, i) ==
    IF i > Len(line) THEN <<>>
    ELSE IF RegexMatchesAt(line, i)
    THEN LET e == WordRunEnd(line, i + 4) IN
         <<[start |-> i, end |-> e]>> \o find_iter(line, e + 1)
    ELSE find_iter(line, i + 1)

\* text[n..]: the text without its first n bytes
RECURSIVE SliceFrom(_, _)
SliceFrom(text, n) ==
    IF n = 0 \/ text = <<>> THEN text
    ELSE IF Len(Head(text)) <= n THEN SliceFrom(Tail(text), n - Len(Head(text)))
    ELSE <<"?">> \o Tail(text)

\* String::from: the pieces as one string
RECURSIVE StringFrom(_)
StringFrom(text) ==
    IF text = <<>> THEN "" ELSE Head(text) \o StringFrom(Tail(text))

\* the sink closure on one line: every match pushes &line[found][9..]
SinkLine(usages, line) ==
    LET found == find_iter(line, 1) IN
    usages \o [k \in 1..Len(found) |->
                 StringFrom(SliceFrom(SubSeq(line, found[k].start, found[k].end), 9))]

\* the pieces of a generated line: references to foo and bar, an
\* identifier that only resembles a reference, the prefix with no
\* identifier after it, a separator, a word
Pieces ==
    { <<"R", ".", "string", ".", "foo">>,
      <<"R", ".", "string", ".", "bar">>,
      <<"R", "_", "string", "_", "foo">>,
      <<"R", ".", "string", ".">>,
      <<",", " ">>,
      <<"bar">> }

RECURSIVE LinesOf(_)
LinesOf(n) ==
    IF n = 0 THEN {<<>>}
    ELSE LinesOf(n - 1) \cup { l \o piece : l \in LinesOf(n - 1), piece \in Pieces }

RECURSIVE SourceFiles(_)
SourceFiles(n) ==
    IF n = 0 THEN {<<>>}
    ELSE SourceFiles(n - 1)
         \cup { Append(f, l) : f \in SourceFiles(n - 1), l \in LinesOf(MaxPieces) }

\* the searcher hands the next line to the sink
SearchLine ==
    /\ s_line >= 1 /\ ~s_result.returned
    /\ s_line <= Len(s_file)
    /\ s_usages' = SinkLine(s_usages, s_file[s_line])
    /\ s_line' = s_line + 1
    /\ UNCHANGED <<s_file, s_result>>
    /\ UNCHANGED notSource

\* the search is over: Ok(ResourceFile) with no definitions
SourceReturn ==
    /\ s_line >= 1 /\ ~s_result.returned
    /\ s_line > Len(s_file)
    /\ s_result' = [returned |-> TRUE, path |-> "src/Test.java",
                    string_definitions |-> <<>>, string_usages |-> s_usages]
    /\ UNCHANGED <<s_file, s_line, s_usages>>
    /\ UNCHANGED notSource

\* index_source_file is called on a file that can be read
InitSource ==
    /\ IdleEdit
    /\ IdleMatch
    /\ IdleIndex
    /\ IdleWalk
    /\ IdleCache
    /\ IdleXml
    /\ s_file \in SourceFiles(MaxSourceLines)
    /\ s_line = 1
    /\ s_usages = <<>>
    /\ s_result = NotReturned

NextSource ==
    \/ SearchLine
    \/ SourceReturn

SpecSource == InitSource /\ [][NextSource]_vars

-----------------------------------------------------------------------------
(* index_xml_file: the regex @string/(\w+) applied to attribute values and *)
(* CDATA sections, and the name attributes of string elements              *)

\* A value is a sequence of pieces of text, like a source line; the marker
\* @string is one piece.

\* value.contains("@string")
contains_marker(value) == \E i \in 1..Len(value) : value[i] = "@string"

\* the regex of line 131 matches at position i: @string, a slash, one or
\* more word characters
UsagePatternMatchesAt(value, i) ==
    /\ i + 2 <= Len(value)
    /\ value[i] = "@string"
    /\ value[i + 1] = "/"
    /\ IsWord(value[i + 2])

\* string_id_usage_pattern.captures(value) and captures.get(1): the group of
\* the leftmost match, if there is a match
captures(value) ==
    LET at == { i \in 1..Len(value) : UsagePatternMatchesAt(value, i) } IN
    IF at = {} THEN [some |-> FALSE, id |-> ""]
    ELSE LET i == CHOOSE k \in at : \A j \in at : k <= j IN
         [some |-> TRUE,
          id |-> StringFrom(SubSeq(value, i + 2, WordRunEnd(value, i + 2)))]

\* lines 141-147 and 154-160: the usages after a value has been looked at
PushUsage(usages, value) ==
    IF contains_marker(value) /\ captures(value).some
    THEN Append(usages, captures(value).id)
    ELSE usages

\* the loop over the attributes of a start-tag, from attribute k on: the
\* definitions and usages after it
RECURSIVE ForAttributes(_, _, _, _)
ForAttributes(acc, name, attributes, k) ==
    IF k > Len(attributes) THEN acc
    ELSE LET a == attributes[k] IN
         ForAttributes(
            [usages |-> PushUsage(acc.usages, a.value),
             defs   |-> IF name = "string" /\ a.name = "name"
                        THEN Append(acc.defs, StringFrom(a.value))
                        ELSE acc.defs],
            name, attributes, k + 1)

\* the values of the generated files: plain text, one reference, two
\* references, the marker with no identifier
XmlValues ==
    { <<"foo">>,
      <<"@string", "/", "foo">>,
      <<"@string", "/", "bar">>,
      <<"@string", "/", "foo", " ", "@string", "/", "bar">>,
      <<"@string">> }

XmlAttrNames == {"name", "label"}

\* attribute lists without a repeated name
XmlAttrLists ==
    {<<>>}
    \cup { <<Attr(n, v)>> : n \in XmlAttrNames, v \in XmlValues }
    \cup { l \in { <<Attr(n1, v1), Attr(n2, v2)>> :
                      n1 \in XmlAttrNames, n2 \in XmlAttrNames,
                      v1 \in XmlValues, v2 \in XmlValues } :
             l[1].name # l[2].name }

XmlEvent(k, n, a, d) == [kind |-> k, name |-> n, attrs |-> a, data |-> d]

\* the events of the generated files
XmlEvents ==
    { XmlEvent("StartElement", n, a, <<>>) :
        n \in {"string", "item"}, a \in XmlAttrLists }
    \cup { XmlEvent("CData", "", NoAttrs, d) : d \in XmlValues }
    \cup { XmlEvent("Characters", "", NoAttrs, d) : d \in XmlValues }
    \cup { XmlEvent("EndElement", "", NoAttrs, <<>>) }

RECURSIVE XmlStreams(_)
XmlStreams(n) ==
    IF n = 0 THEN {<<>>}
    ELSE XmlStreams(n - 1)
         \cup { Append(st, ev) : st \in XmlStreams(n - 1), ev \in XmlEvents }

\* the end of a stream: the document ends, or the parser reports an error
XmlEnds == { XmlEvent("EndDocument", "", NoAttrs, <<>>),
             XmlEvent("Err", "", NoAttrs, <<>>) }

XmlStartElement ==
    /\ x_pos >= 1 /\ ~x_result.returned
    /\ x_events[x_pos].kind = "StartElement"
    /\ LET r == ForAttributes([usages |-> x_usages, defs |-> x_defs],
                              x_events[x_pos].name, x_events[x_pos].attrs, 1)
       IN  /\ x_usages' = r.usages
           /\ x_defs' = r.defs
    /\ x_pos' = x_pos + 1
    /\ UNCHANGED <<x_events, x_result>>
    /\ UNCHANGED notXml

XmlCData ==
    /\ x_pos >= 1 /\ ~x_result.returned
    /\ x_events[x_pos].kind = "CData"
    /\ x_usages' = PushUsage(x_usages, x_events[x_pos].data)
    /\ x_pos' = x_pos + 1
    /\ UNCHANGED <<x_events, x_defs, x_result>>
    /\ UNCHANGED notXml

\* break, then Ok(ResourceFile)
XmlEndDocument ==
    /\ x_pos >= 1 /\ ~x_result.returned
    /\ x_events[x_pos].kind = "EndDocument"
    /\ x_result' = [returned |-> TRUE, ok |-> TRUE, path |-> "res/strings.xml",
                    string_definitions |-> x_defs, string_usages |-> x_usages]
    /\ UNCHANGED <<x_events, x_pos, x_defs, x_usages>>
    /\ UNCHANGED notXml

\* return Err(..) with the path as context
XmlErr ==
    /\ x_pos >= 1 /\ ~x_result.returned
    /\ x_events[x_pos].kind = "Err"
    /\ x_result' = [NotReturnedXml EXCEPT !.returned = TRUE]
    /\ UNCHANGED <<x_events, x_pos, x_defs, x_usages>>
    /\ UNCHANGED notXml

\* every other event
XmlOther ==
    /\ x_pos >= 1 /\ ~x_result.returned
    /\ x_events[x_pos].kind \in {"Characters", "EndElement"}
    /\ x_pos' = x_pos + 1
    /\ UNCHANGED <<x_events, x_defs, x_usages, x_result>>
    /\ UNCHANGED notXml

\* index_xml_file is called on a file that can be opened
InitXml ==
    /\ IdleEdit
    /\ IdleMatch
    /\ IdleIndex
    /\ IdleWalk
    /\ IdleCache
    /\ IdleSource
    /\ \E st \in XmlStreams(MaxEvents), e \in XmlEnds : x_events = Append(st, e)
    /\ x_pos = 1
    /\ x_defs = <<>>
    /\ x_usages = <<>>
    /\ x_result = NotReturnedXml

NextXml ==
    \/ XmlStartElement
    \/ XmlCData
    \/ XmlEndDocument
    \/ XmlErr
    \/ XmlOther

SpecXml == InitXml /\ [][NextXml]_vars

-----------------------------------------------------------------------------
(* What the claims about the editor speak of, computed from the document    *)
(* itself and not from the scan.                                            *)

\* the whole document parses: the tokenizer reaches EndDocument
RECURSIVE ParsesFrom(_, _)
ParsesFrom(content, p) ==
    LET ev == NextEvent(content, p) IN
    IF ev.kind = "Err" THEN FALSE
    ELSE IF ev.kind = "EndDocument" THEN TRUE
    ELSE ParsesFrom(content, ev.next)

WellFormed(content) == ParsesFrom(content, ParserInit)

\* the positions, among the tokens, of the start-tags the matcher accepts
MatchingStarts(content, m) ==
    LET toks == FlatTokens(content) IN
    { i \in 1..Len(toks) :
        /\ toks[i].tok.kind = "start"
        /\ matches(m, toks[i].tok.name, toks[i].tok.attrs) }

Min(S) == CHOOSE x \in S : \A y \in S : x <= y

\* start-tags minus end-tags among the tokens i..j
RECURSIVE Balance(_, _, _)
Balance(toks, i, j) ==
    IF i > j THEN 0
    ELSE (CASE toks[j].tok.kind = "start" -> 1
            [] toks[j].tok.kind = "end" -> -1
            [] OTHER -> 0) + Balance(toks, i, j - 1)

\* the position of the end-tag that closes the element whose start-tag is at i
CloseOf(toks, i) ==
    Min({ j \in (i + 1)..Len(toks) : Balance(toks, i, j) = 0 })

\* the element whose start-tag is at i has child elements
HasChildElement(toks, i) ==
    \E j \in (i + 1)..(CloseOf(toks, i) - 1) : toks[j].tok.kind = "start"

\* the line span of the element whose start-tag is at i
SpanOf(toks, i) == Some(toks[i].row, toks[CloseOf(toks, i)].row)

\* the line span of the earliest element the matcher accepts
FirstMatchSpan(content, m) ==
    SpanOf(FlatTokens(content), Min(MatchingStarts(content, m)))

\* the lines of ls whose (0-based) number lies outside [s, e], in order
LinesOutside(ls, s, e) ==
    LET RECURSIVE Sel(_)
        Sel(i) == IF i > Len(ls) THEN <<>>
                  ELSE (IF i - 1 < s \/ i - 1 > e THEN <<ls[i]>> ELSE <<>>)
                       \o Sel(i + 1)
    IN  Sel(1)

\* the call has read the file: file_content is the content before the call
InCall == pc # "read"

Returned == pc = "done"

-----------------------------------------------------------------------------
(* C1. Surgical removal with nested children: when the first element the   *)
(* matcher accepts contains child elements, the location reported is the   *)
(* span from the line of its start-tag to the line of its own end-tag, and *)
(* remove_element returns true having deleted exactly the lines of that    *)
(* span.                                                                   *)
C1_NestedMatchRemoved ==
    (/\ Returned
     /\ WellFormed(file_content)
     /\ MatchingStarts(file_content, matcher) # {}
     /\ HasChildElement(FlatTokens(file_content),
                        Min(MatchingStarts(file_content, matcher))))
    => LET span == FirstMatchSpan(file_content, matcher) IN
       /\ location = span
       /\ result = "true"
       /\ Lines(file) = LinesOutside(Lines(file_content),
                                     span.start_line, span.end_line)

(* C2. Rewrite contract: once a location [start_line, end_line] is found,  *)
(* remove_element returns true and the rewritten file consists of exactly  *)
(* the original lines whose number lies outside the range, in their        *)
(* original order.                                                         *)
C2_RewriteKeepsLinesOutsideSpan ==
    (Returned /\ location.some)
    => /\ result = "true"
       /\ Lines(file) = LinesOutside(Lines(file_content),
                                     location.start_line, location.end_line)

(* C3. No-op on absence: while and after a call on a document in which no  *)
(* start-tag satisfies the matcher, the file has not been opened for       *)
(* writing and holds what it held before the call; the call does not       *)
(* return true, and on a document that parses it returns false. The same   *)
(* holds of every later call.                                              *)
C3_NoMatchLeavesFileUntouched ==
    (InCall /\ MatchingStarts(file_content, matcher) = {})
    => /\ ~opened
       /\ file = file_content
       /\ result \in {"none", "false", "err"}
       /\ (Returned /\ WellFormed(file_content)) => result = "false"

\* C3's case: a call on a document with string elements, none of them
\* accepted, has returned false
C3_Witness ==
    /\ Returned
    /\ result = "false"
    /\ MatchingStarts(file_content, matcher) = {}
    /\ \E i \in 1..Len(FlatTokens(file_content)) :
          /\ FlatTokens(file_content)[i].tok.kind = "start"
          /\ FlatTokens(file_content)[i].tok.name = "string"

(* C4. Only the first matching element is located: whenever a location has *)
(* been found in a document that parses, it is the span of the earliest    *)
(* start-tag the matcher accepts.                                          *)
C4_LocationIsFirstMatch ==
    (InCall /\ location.some /\ WellFormed(file_content))
    => location = FirstMatchSpan(file_content, matcher)

-----------------------------------------------------------------------------
(* C9. unused_strings() is defined_strings() minus used_strings(): an      *)
(* identifier is in the result exactly when some record declares it and no *)
(* record references it.                                                   *)
C9_UnusedIsDefinedMinusUsed ==
    view.op = "unused_strings"
    => \A id \in Ids :
          id \in view.value
          <=> /\ \E i \in 1..Len(files) :
                    \E k \in 1..Len(files[i].string_definitions) :
                       files[i].string_definitions[k] = id
              /\ \A i \in 1..Len(files) :
                    \A k \in 1..Len(files[i].string_usages) :
                       files[i].string_usages[k] # id

\* C9's cases together: of two identifiers declared in one record, one is
\* referenced from another record and is not reported, the other is
C9_Witness ==
    /\ view.op = "unused_strings"
    /\ Len(files) = 2
    /\ files[1].string_definitions = <<"x", "y">>
    /\ files[1].string_usages = <<>>
    /\ files[2].string_usages = <<"x">>
    /\ view.value = {"y"}

(* C10. matches returns true exactly when the element's local name equals  *)
(* the matcher's and, for every required (attribute name, value) pair, the *)
(* element carries an attribute of that name with that value.              *)
C10_MatchesIffNameAndRequiredAttrs ==
    q_result # "none"
    => (q_result = "true"
        <=> /\ q_elem.name = q_matcher.local_name
            /\ \A k \in DOMAIN q_matcher.local_attribute_values :
                  \E i \in 1..Len(q_elem.attrs) :
                     /\ q_elem.attrs[i].name = k
                     /\ q_elem.attrs[i].value
                            = q_matcher.local_attribute_values[k])

-----------------------------------------------------------------------------
(* What the claims about the walks speak of, computed from the disk *)

\* the walks index() makes with these roots
WalksMade ==
    IF roots.manifest_root # roots.res_root
    THEN {"res", "manifest", "src"} ELSE {"res", "src"}

\* the files a walk finds
FilesOfWalk(ph) ==
    { f \in disk : /\ f.dir \in DirsUnder(WalkRoot(ph))
                   /\ \E pt \in WalkPatterns(ph) : f.kind \in GlobKinds(pt) }

\* those whose extraction succeeds, and those whose extraction fails
SoundFiles(ph) == { f \in FilesOfWalk(ph) : f.ok }

BrokenFiles(ph) == { f \in FilesOfWalk(ph) : ~f.ok }

\* the positions of list that hold a record of path
RecordsOf(list, path) == { i \in 1..Len(list) : list[i].path = path }

\* every worker thread of the current walk has ended and dropped its Sender
WorkersDone == \A w \in Workers : workers[w].pc = "exit"

\* the collector has sent the list, or the walk function has returned it
ListHandedOver ==
    \/ collector = "done"
    \/ chan2 # <<>>
    \/ cpc \in {"call", "returned"} /\ phase # "res"

(* C5. The record list is handed over only after every worker has finished *)
(* and every Sender is dropped: whenever the collector has sent the list   *)
(* or the walk has returned, no worker is extracting or about to send, no  *)
(* Sender is alive and no record is in flight.                             *)
C5_ListOnlyAfterWorkersDone ==
    ListHandedOver
    => /\ WorkersDone
       /\ tx_count = 0
       /\ chan = <<>>
       /\ pending = {}

\* C5's case: the collector has sent a list of two records, which two
\* workers had to send
C5_Witness ==
    /\ collector = "done"
    /\ chan2 # <<>>
    /\ Len(Head(chan2)) = 2

(* C6. Fan-in completeness: the list a walk returns holds exactly one       *)
(* record for each file whose extraction succeeded and nothing else.       *)
C6_ListIsTheSoundFiles ==
    (Walking /\ chan2 # <<>>)
    => LET list == Head(chan2) IN
       /\ Len(list) = Cardinality(SoundFiles(phase))
       /\ \A f \in SoundFiles(phase) :
             /\ Cardinality(RecordsOf(list, f.path)) = 1
             /\ \A i \in RecordsOf(list, f.path) :
                   list[i].string_usages = f.usages

\* C6's case: two workers each sent a record, and the list holds both, the
\* later file of the directory first
C6_Witness ==
    /\ Walking
    /\ chan2 # <<>>
    /\ Len(Head(chan2)) = 2
    /\ Head(chan2)[1].path = "res/layout.xml"
    /\ Head(chan2)[2].path = "res/strings.xml"

(* C7. A walk always runs to completion: under fair scheduling of the      *)
(* caller, the collector and the workers, every walk of index() returns    *)
(* and index() ends, with no thread panicked.                              *)
C7_IndexCompletes == <>(phase = "done" /\ cpc = "returned" /\ panicked = {})

\* C7's case: index() has returned after walks with both sound and broken
\* files
C7_Witness ==
    /\ phase = "done"
    /\ \E ph \in WalksMade : SoundFiles(ph) # {}
    /\ \E ph \in WalksMade : BrokenFiles(ph) # {}

(* C8. Per-file soft failure in both walks: once index() has returned,     *)
(* every file whose extraction failed has a warning logged and no record,  *)
(* and every other file found has its record.                              *)
C8_BrokenFileLoggedAndDropped ==
    phase = "done"
    => \A ph \in WalksMade :
          /\ \A f \in BrokenFiles(ph) :
                /\ [walk |-> ph, path |-> f.path] \in warnings
                /\ RecordsOf(files, f.path) = {}
          /\ \A f \in SoundFiles(ph) : RecordsOf(files, f.path) # {}

(* C9, the scenario of test_index_manifest_files: with a manifest root     *)
(* apart from the resource root, a resource file declaring some_app and a  *)
(* manifest referencing it, some_app is defined and used and nothing else  *)
(* is declared, so unused_strings() is empty.                              *)
C9_ManifestScenario ==
    (/\ phase = "done"
     /\ roots.manifest_root = "man"
     /\ \E f \in disk : f.path = "res/strings.xml" /\ f.ok
     /\ \E f \in disk : f.path = "man/AndroidManifest.xml" /\ f.ok)
    => /\ "some_app" \in defined_strings(files)
       /\ "some_app" \in used_strings(files)
       /\ unused_strings(files) = {}
       /\ view.op = "unused_strings" => view.value = {}

-----------------------------------------------------------------------------
\* the paths of the records of fs that hold id in the field sel
PathsHolding(fs, id, sel(_)) ==
    { fs[i].path : i \in { k \in 1..Len(fs) :
                             \E j \in 1..Len(sel(fs[k])) : sel(fs[k])[j] = id } }

DefsOf(f) == f.string_definitions

UsesOf(f) == f.string_usages

\* what a cache call has returned, against what was saved last
CacheCallReturned ==
    /\ c_result.op = "deserialize"
       => IF saved.some
          THEN /\ c_result.ok
               /\ c_result.files = saved.files
               /\ defined_strings(c_result.files) = defined_strings(saved.files)
               /\ used_strings(c_result.files) = used_strings(saved.files)
               /\ \A id \in Ids :
                     /\ PathsHolding(c_result.files, id, DefsOf)
                           = PathsHolding(saved.files, id, DefsOf)
                     /\ PathsHolding(c_result.files, id, UsesOf)
                           = PathsHolding(saved.files, id, UsesOf)
          ELSE /\ ~c_result.ok
               /\ ~cache_file.exists
               /\ phase = "none" /\ cpc = "idle"
    /\ c_result.op = "serialize"
       => /\ c_result.ok
          /\ saved.some /\ saved.files = files
          /\ cache_file.exists

(* C11. The cache is a one-slot register: deserialize returns the record   *)
(* list handed to the most recent serialize, so that the defined set, the  *)
(* used set and the files of every identifier are those of that index;     *)
(* with no serialize made it fails; and after either call the index in     *)
(* memory is the one the caller held.                                      *)
C11_CacheIsOneSlotRegister ==
    /\ []CacheCallReturned
    /\ [][c_result'.op # "none" => files' = files]_vars

\* C11's case: two indexes were saved one after the other, the caller holds
\* a third, and deserialize returned the second
C11_Witness ==
    /\ c_result.op = "deserialize"
    /\ c_result.ok
    /\ Len(c_result.files) = 2
    /\ c_result.files[1].path = "q"
    /\ files = <<>>
    /\ saved.files = c_result.files

-----------------------------------------------------------------------------
\* a occurs in b, in order, possibly with other elements between
RECURSIVE IsSubSeq(_, _)
IsSubSeq(a, b) ==
    IF a = <<>> THEN TRUE
    ELSE IF b = <<>> THEN FALSE
    ELSE IF Head(a) = Head(b) THEN IsSubSeq(Tail(a), Tail(b))
    ELSE IsSubSeq(a, Tail(b))

(* C12. Nothing outside the removed span is reformatted: after a call that *)
(* returned true, the original lines outside the span are in the file in   *)
(* their order, each with its text and its original terminator (LF, CRLF,  *)
(* or none for a last line without newline); in particular the file ends   *)
(* with a newline exactly when the original did.                           *)
C12_BytesOutsideSpanUnchanged ==
    (Returned /\ result = "true")
    => LET kept == LinesOutside(file_content, location.start_line,
                                location.end_line)
       IN
       /\ IsSubSeq(kept, file)
       /\ kept # <<>> /\ Last(kept) = Last(file_content)
          => file # <<>> /\ Last(file).eol = Last(file_content).eol

-----------------------------------------------------------------------------
\* a walker thread is at work: waiting for an entry, extracting or sending
Active(w) == workers[w].pc \in {"idle", "visit", "send"}

\* the walk function of the current walk is between its call and its return
InsideWalk == Walking /\ cpc \in {"spawned", "run", "recv"}

\* every thread of the walk made last has done its work
WalkOver ==
    /\ \A w \in Workers : ~Active(w)
    /\ collector \in {"none", "done"}
    /\ tx_count = 0
    /\ chan = <<>>

\* the order of the walks inside index()
WalkOrder ==
    {<<"res", "manifest">>, <<"res", "src">>, <<"manifest", "src">>,
     <<"src", "done">>}

\* threads run only inside the walk function of the current walk and work
\* on its entries; between two walks, and after index() has returned,
\* nothing runs
OneWalkAtATime ==
    /\ \A w \in Workers :
          Active(w)
          => /\ Walking /\ cpc = "run"
             /\ workers[w].entry # NoEntry
                => workers[w].entry
                     \in Entries(disk, WalkRoot(phase), WalkPatterns(phase))
    /\ collector \in {"recv", "send"} => InsideWalk
    /\ ~InsideWalk => WalkOver /\ chan2 = <<>>
    /\ phase = "failed" => cpc = "returned"

(* C13. The walks of index() run strictly one after another: resource      *)
(* tree, then manifest tree, then source tree; a walk starts only when the  *)
(* one before has returned with all its workers finished and its collector *)
(* done; workers only ever belong to the walk in progress; and once a walk *)
(* has returned Err no later walk starts.                                  *)
C13_WalksRunOneAfterAnother ==
    /\ []OneWalkAtATime
    /\ [][/\ phase' # phase
             => \/ /\ <<phase, phase'>> \in WalkOrder
                   /\ cpc = "recv" /\ WorkersDone /\ collector = "done"
                   /\ tx_count = 0 /\ chan = <<>>
                \/ phase' = "failed" /\ cpc = "call" /\ WalkOver
          /\ phase = "failed" => UNCHANGED wvars]_vars

\* C13's case: the source walk is at work with the records of the resource
\* walk and of the manifest walk already gathered
C13_Witness ==
    /\ phase = "src"
    /\ \E w \in Workers : workers[w].pc = "visit"
    /\ Len(xml_files) = 3
    /\ xml_files[3].path = "man/AndroidManifest.xml"

-----------------------------------------------------------------------------
\* the records of files that hold id among their declarations, their usages
Declaring(id) ==
    { i \in 1..Len(files) :
        \E k \in 1..Len(files[i].string_definitions) :
           files[i].string_definitions[k] = id }

Referencing(id) ==
    { i \in 1..Len(files) :
        \E k \in 1..Len(files[i].string_usages) : files[i].string_usages[k] = id }

(* C14. The index invents nothing: every key of files_for_definition() and *)
(* every member of defined_strings() is declared in some record, every key *)
(* of files_for_usage() and every member of used_strings() is referenced   *)
(* in some record, every path listed under a key is the path of a record   *)
(* holding that key, and the keys of each map are the corresponding set.   *)
C14_IndexInventsNothing ==
    /\ view.op = "defined_strings"
       => \A id \in view.value : Declaring(id) # {}
    /\ view.op = "used_strings"
       => \A id \in view.value : Referencing(id) # {}
    /\ view.op = "files_for_definition"
       => /\ DOMAIN view.value = defined_strings(files)
          /\ \A id \in DOMAIN view.value :
                /\ Declaring(id) # {}
                /\ \A j \in 1..Len(view.value[id]) :
                      \E i \in Declaring(id) : files[i].path = view.value[id][j]
    /\ view.op = "files_for_usage"
       => /\ DOMAIN view.value = used_strings(files)
          /\ \A id \in DOMAIN view.value :
                /\ Referencing(id) # {}
                /\ \A j \in 1..Len(view.value[id]) :
                      \E i \in Referencing(id) : files[i].path = view.value[id][j]

\* C14's case: the usage map of an index in which x is referenced from two
\* files and declared in none of them
C14_Witness ==
    /\ view.op = "files_for_usage"
    /\ DOMAIN view.value = {"x"}
    /\ view.value["x"] = <<"p", "q">>
    /\ defined_strings(files) = {"y"}

-----------------------------------------------------------------------------
\* the literal prefix R.string. followed by an identifier starts at i
EscapedRegexMatchesAt(line, i) ==
    /\ i + 4 <= Len(line)
    /\ line[i] = "R"
    /\ line[i + 1] = "."
    /\ line[i + 2] = "string"
    /\ line[i + 3] = "."
    /\ IsWord(line[i + 4])

\* the identifiers of the references on a line: the occurrences, leftmost
\* first and not overlapping, of the literal prefix R.string. followed by an
\* identifier, each giving the identifier
RECURSIVE ReferencesOn(_, _)
ReferencesOn(line, i) ==
    IF i > Len(line) THEN <<>>
    ELSE IF EscapedRegexMatchesAt(line, i)
    THEN LET e == WordRunEnd(line, i + 4) IN
         <<StringFrom(SubSeq(line, i + 4, e))>> \o ReferencesOn(line, e + 1)
    ELSE ReferencesOn(line, i + 1)

ReferencesIn(f) == Concat([k \in 1..Len(f) |-> ReferencesOn(f[k], 1)])

(* C15. index_source_file yields one usage entry for each occurrence of    *)
(* R.string.<identifier> in the file, several on one line included, each   *)
(* entry being the identifier, in order of occurrence, and no declaration. *)
C15_OneUsagePerReference ==
    s_result.returned
    => /\ s_result.string_usages = ReferencesIn(s_file)
       /\ s_result.string_definitions = <<>>

-----------------------------------------------------------------------------
\* the identifiers that follow the marker @string/ in a value, leftmost
\* first
RECURSIVE MarkedIn(_, _)
MarkedIn(value, i) ==
    IF i > Len(value) THEN <<>>
    ELSE IF UsagePatternMatchesAt(value, i)
    THEN LET e == WordRunEnd(value, i + 2) IN
         <<StringFrom(SubSeq(value, i + 2, e))>> \o MarkedIn(value, e + 1)
    ELSE MarkedIn(value, i + 1)

\* the declarations of an event: the name attributes of a string start-tag
DeclaredBy(ev) ==
    IF ev.kind = "StartElement" /\ ev.name = "string"
    THEN Concat([k \in 1..Len(ev.attrs) |->
                   IF ev.attrs[k].name = "name"
                   THEN <<StringFrom(ev.attrs[k].value)>> ELSE <<>>])
    ELSE <<>>

\* the references of an event: those of the attribute values of a
\* start-tag, those of a CDATA section
ReferencedBy(ev) ==
    IF ev.kind = "StartElement"
    THEN Concat([k \in 1..Len(ev.attrs) |-> MarkedIn(ev.attrs[k].value, 1)])
    ELSE IF ev.kind = "CData" THEN MarkedIn(ev.data, 1)
    ELSE <<>>

(* C16. index_xml_file on a file that parses records as declarations the   *)
(* values of the name attributes of the string start-tags, in document     *)
(* order, and as usages the identifiers that follow the marker @string/ in *)
(* the attribute values of start-tags and in CDATA sections; one string    *)
(* element named X and no reference give the one declaration X and no      *)
(* usage.                                                                  *)
C16_XmlDeclarationsAndUsages ==
    (x_result.returned /\ x_result.ok)
    => /\ x_result.string_definitions
            = Concat([k \in 1..Len(x_events) |-> DeclaredBy(x_events[k])])
       /\ x_result.string_usages
            = Concat([k \in 1..Len(x_events) |-> ReferencedBy(x_events[k])])

-----------------------------------------------------------------------------
Max(S) == CHOOSE x \in S : \A y \in S : x >= y

\* the tokens of the document the parser has gone past
Consumed == IF parser.pos = 0 THEN 0 ELSE parser.pos - 1

\* the elements open after those tokens, counted on the document
OpenElements == Balance(FlatTokens(file_content), 1, Consumed)

\* the start-tags the matcher accepts among those tokens
MatchesSeen == { i \in MatchingStarts(file_content, matcher) : i <= Consumed }

(* C17. Depth bookkeeping of the scan of a document that parses: while the *)
(* scan runs, depth is the number of elements open at the parser's         *)
(* position, whatever start-tags and end-tags came before, those of        *)
(* elements nested in a match included; it is never negative; start_depth  *)
(* is -1 until a start-tag is accepted and then the depth of the accepted  *)
(* start-tag seen last; and when an end-tag ends the scan, depth keeps the *)
(* depth of the element that end-tag closes.                               *)
C17_DepthIsOpenElements ==
    InCall
    => \/ /\ depth >= 0
          /\ pc = "scan"
             => /\ depth = OpenElements
                /\ IF MatchesSeen = {} THEN start_depth = -1
                   ELSE start_depth
                          = Balance(FlatTokens(file_content), 1, Max(MatchesSeen))
          /\ location.some
             => /\ depth = OpenElements + 1
                /\ depth = start_depth
       \/ ~WellFormed(file_content)

\* C17's case: inside an accepted element that is still open, the end-tag
\* of a child has just been passed
C17_Witness ==
    /\ pc = "scan"
    /\ WellFormed(file_content)
    /\ MatchesSeen # {}
    /\ LET toks == FlatTokens(file_content) IN
       /\ CloseOf(toks, Max(MatchesSeen)) > Consumed
       /\ toks[Consumed].tok.kind = "end"
    /\ depth = start_depth
    /\ depth = 2

-----------------------------------------------------------------------------
(* C18. One record per scanned file, however the roots are arranged: the   *)
(* record list index() returns holds no two records with the same path,    *)
(* and the manifest walk is not made when the manifest root is the         *)
(* resource root (given as such or omitted).                               *)
C18_OneRecordPerFile ==
    /\ phase = "manifest" => roots.manifest_root # roots.res_root
    /\ phase = "done"
       => \A i \in 1..Len(files) : \A j \in 1..Len(files) :
             files[i].path = files[j].path => i = j

-----------------------------------------------------------------------------
(* C19. No send fails: whenever a worker is about to send a record the     *)
(* collector still holds the Receiver, which it keeps as long as a Sender  *)
(* is alive; whenever the collector is about to send the list the caller   *)
(* is still inside the walk function, holding the second Receiver; so no   *)
(* unwrap of a send result panics.                                         *)
C19_SendNeverFails ==
    /\ \A w \in Workers :
          workers[w].pc = "send" => rx_alive /\ collector = "recv"
    /\ tx_count > 0 => rx_alive
    /\ collector = "send" => InsideWalk
    /\ panicked = {}

\* C19's case: one worker's record is in flight to the collector while
\* another worker is about to send
C19_Witness ==
    /\ chan # <<>>
    /\ \E w \in Workers : workers[w].pc = "send"
    /\ \E w \in Workers : workers[w].pc = "exit"
    /\ panicked = {}

-----------------------------------------------------------------------------
(* C20. The line counter of the rewrite loop stays within u64 and counts   *)
(* the lines: when line k (from 0) is about to be tested the counter is k, *)
(* and no iteration overflows it, so that a call which has truncated the   *)
(* file never ends in a panic.                                             *)
C20_LineCounterCountsLines ==
    /\ (pc = "loop" /\ idx <= Len(Lines(file_content)))
       => /\ line_number = U64FromNat(idx - 1)
          /\ ~StepLineNumber(line_number).overflow
    /\ opened => result # "panic"

-----------------------------------------------------------------------------
(* C21. State unchanged on a scan error: whenever the scan is about to be  *)
(* handed a parse error (no end-tag has ended the scan yet), the call      *)
(* returns that error in the same step, without opening the file; and a    *)
(* call that returned an error has found no location, has not opened the   *)
(* file for writing, and the file holds exactly what the call read.        *)
C21_ScanErrorLeavesFileUntouched ==
    /\ [](result = "err"
            => /\ pc = "done"
               /\ location = None
               /\ ~opened
               /\ file = file_content)
    /\ [][(pc = "scan" /\ NextEvent(file_content, parser).kind = "Err")
            => /\ result' = "err"
               /\ pc' = "done"
               /\ ~opened'
               /\ file' = file
               /\ file = file_content]_vars

\* C21's case: the parse error came inside an accepted element, after its
\* start-tag and before its end-tag, and the call has returned it
C21_Witness ==
    /\ result = "err"
    /\ in_skipped_element
    /\ start_depth = depth
    /\ file # <<>>
    /\ file = file_content

-----------------------------------------------------------------------------
(* The whole program: any one of the parts, from its initial state *)

Init ==
    \/ InitEdit \/ InitMatch \/ InitIndex \/ InitWalk \/ InitCache
    \/ InitSource \/ InitXml

Next ==
    \/ NextEdit \/ NextMatch \/ NextIndex \/ NextWalk \/ NextCache
    \/ NextSource \/ NextXml

Spec == Init /\ [][Next]_vars

=============================================================================
